---- MODULE Spec2Model ----
(***************************************************************************)
(* Model of the Dockerfile generator of gdesouza/godockerfile.             *)
(*                                                                         *)
(* The repository holds two variants of the generator:                     *)
(*   - src/main.go (lines 59-268, package builder): DockerfileConfig with  *)
(*     OrderedDockerCmds, formatDockerCmd and a header, WORKDIR only when  *)
(*     Workspace is set;                                                   *)
(*   - src/builder/builder.go: the variant without OrderedDockerCmds,      *)
(*     which writes the WORKDIR line unconditionally.                      *)
(* Both read the same configuration fields, so one configuration value is  *)
(* kept in `config` and each variant has its own generate operation.       *)
(*                                                                         *)
(* The text a generator builds is kept as the sequence of the strings it   *)
(* passes to builder.WriteString, each tagged with the code block that     *)
(* wrote it; the returned string is their concatenation (Text).            *)
(***************************************************************************)
EXTENDS Integers, Sequences, FiniteSets, TLC

VARIABLES
    config,  \* the DockerfileConfig value
    calls,   \* number of mutator calls made on config so far
    ret      \* the last call: op (which operation) and what it returned (out, err)

vars == <<config, calls, ret>>

----------------------------------------------------------------------------
(* Bounds of the model *)

\* at most this many mutator calls are made on one configuration
MaxCalls == 2

----------------------------------------------------------------------------
(* DockerCmdType, src/main.go:66-86 *)

FROM == "FROM"
RUN == "RUN"
COPY == "COPY"
ADD == "ADD"
WORKDIR == "WORKDIR"
EXPOSE == "EXPOSE"
USER == "USER"
ENTRYPOINT == "ENTRYPOINT"
CMD == "CMD"
VOLUME == "VOLUME"
ARG == "ARG"
LABEL == "LABEL"
ENV == "ENV"
HEALTHCHECK == "HEALTHCHECK"
MAINTAINER == "MAINTAINER"
STOP_SIGNAL == "STOPSIGNAL"

\* the declared constants of type DockerCmdType
DockerCmdTypes ==
    {FROM, RUN, COPY, ADD, WORKDIR, EXPOSE, USER, ENTRYPOINT, CMD, VOLUME,
     ARG, LABEL, ENV, HEALTHCHECK, MAINTAINER, STOP_SIGNAL}

\* DockerCmdType is a string type: any string can be put in DockerCmd.Type.
\* SHELL is a value no constant declares.
UnknownTypes == {"SHELL"}

\* the nil error
Nil == "<nil>"

\* Version of builder/version.go, written into the header
Version == "0.0.0"

----------------------------------------------------------------------------
(* Inputs *)

BaseImages == {"", "ubuntu:20.04"}
AppPorts == {-1, 0, 8080}
BuildCommands == {"", "go build -o app ."}
RunCommands == {"", "./app"}
Entrypoints == {"", "/bin/sh -c"}
Workspaces == {"", "/app"}
Users == {"", "nonroot"}

DepNames == {"curl", "ros-noetic-ros-base"}
CopyInputs ==
    {[Origin |-> "main.go", Destination |-> "/app/main.go"],
     [Origin |-> "config.file", Destination |-> "config.file"]}
PreRunInputs == {"groupadd --gid 1000 mygroup", "useradd --uid 1000 --gid 1000 myuser"}

\* the list fields as a composite literal sets them: all left at their zero
\* value, or as in the example of main()
ListPresets ==
    {[Dependencies |-> <<>>, CopyFiles |-> <<>>, PreRunCommands |-> <<>>],
     [Dependencies |-> <<"git", "curl">>,
      CopyFiles |-> <<[Origin |-> "main.go", Destination |-> "/app/main.go"]>>,
      PreRunCommands |-> <<"chmod +x ./app">>]}

\* generic commands appended next to the fixed sections
SectionCmds ==
    {[Type |-> RUN, Command |-> "echo hi", Args |-> <<>>],
     [Type |-> EXPOSE, Command |-> "", Args |-> <<"9090", "9091">>],
     [Type |-> "SHELL", Command |-> "/bin/bash", Args |-> <<>>]}

\* generic commands of every kind, with and without Args
AllCmds ==
    {[Type |-> t, Command |-> "c", Args |-> a] :
        t \in DockerCmdTypes \cup UnknownTypes, a \in {<<>>, <<"a1", "a2">>}}

----------------------------------------------------------------------------
(* Text helpers *)

\* one builder.WriteString(s), made by the code block sec
Line(sec, s) == [sec |-> sec, s |-> s]

RECURSIVE Text(_)
\* builder.String(): the concatenation of everything written
Text(out) == IF out = <<>> THEN "" ELSE Head(out).s \o Text(Tail(out))

RECURSIVE Join(_, _)
\* strings.Join(elems, sep)
Join(elems, sep) ==
    IF elems = <<>> THEN ""
    ELSE IF Len(elems) = 1 THEN elems[1]
    ELSE elems[1] \o sep \o Join(Tail(elems), sep)

Digit(d) ==
    CASE d = 0 -> "0" [] d = 1 -> "1" [] d = 2 -> "2" [] d = 3 -> "3"
      [] d = 4 -> "4" [] d = 5 -> "5" [] d = 6 -> "6" [] d = 7 -> "7"
      [] d = 8 -> "8" [] d = 9 -> "9"

RECURSIVE Itoa(_)
\* the %d verb of fmt.Sprintf
Itoa(n) ==
    IF n < 0 THEN "-" \o Itoa(-n)
    ELSE IF n < 10 THEN Digit(n)
    ELSE Itoa(n \div 10) \o Digit(n % 10)

----------------------------------------------------------------------------
(* formatDockerCmd, src/main.go:231-268 *)

\* the (string, error) pair a function returns
Ok(line) == [line |-> line, err |-> Nil]
Fail(msg) == [line |-> "", err |-> msg]

formatDockerCmd(cmd) ==
    CASE cmd.Type \in {RUN, WORKDIR, USER, MAINTAINER} ->
            Ok(cmd.Type \o " " \o cmd.Command \o "\n")
      [] cmd.Type \in {COPY, ADD} ->
            IF Len(cmd.Args) > 0
            THEN Ok(cmd.Type \o " " \o cmd.Command \o " " \o Join(cmd.Args, " ") \o "\n")
            ELSE Ok(cmd.Type \o " " \o cmd.Command \o "\n")
      [] cmd.Type \in {EXPOSE, STOP_SIGNAL} ->
            IF Len(cmd.Args) > 0
            THEN Ok(cmd.Type \o " " \o Join(cmd.Args, " ") \o "\n")
            ELSE Ok(cmd.Type \o " " \o cmd.Command \o "\n")
      [] cmd.Type \in {ENTRYPOINT, CMD} ->
            IF Len(cmd.Args) > 0
            THEN Ok(cmd.Type \o " [\"" \o cmd.Command \o "\", \""
                    \o Join(cmd.Args, "\", \"") \o "\"]\n")
            ELSE Ok(cmd.Type \o " [\"" \o cmd.Command \o "\"]\n")
      [] cmd.Type = VOLUME ->
            IF Len(cmd.Args) > 0
            THEN Ok("VOLUME [\"" \o Join(cmd.Args, "\", \"") \o "\"]\n")
            ELSE Ok("VOLUME [\"" \o cmd.Command \o "\"]\n")
      [] cmd.Type \in {ARG, LABEL, ENV} ->
            IF Len(cmd.Args) > 0
            THEN Ok(cmd.Type \o " " \o cmd.Command \o "=" \o Join(cmd.Args, " ") \o "\n")
            ELSE Ok(cmd.Type \o " " \o cmd.Command \o "\n")
      [] cmd.Type = HEALTHCHECK ->
            IF Len(cmd.Args) > 0
            THEN Ok("HEALTHCHECK CMD " \o Join(cmd.Args, " ") \o "\n")
            ELSE Ok("HEALTHCHECK CMD " \o cmd.Command \o "\n")
      [] OTHER -> Fail("unknown Docker command type: " \o cmd.Type)

----------------------------------------------------------------------------
(* The code blocks of GenerateDockerfileContent.  Each yields the writes   *)
(* it makes, in order.                                                     *)

\* the (string, error) pair of GenerateDockerfileContent; out is empty when
\* the empty string is returned
Result(out, err) == [out |-> out, err |-> err]

\* the check left out: an empty BaseImage is written like any other
BaseImageEmpty_Unchecked(cfg) == FALSE

\* the check both variants start with
BaseImageEmpty(cfg) == cfg.BaseImage = ""

HeaderSection ==
    << Line("header", "# Auto-generated Dockerfile\n"),
       Line("header", "# Do not edit this file manually\n"),
       Line("header", "# Dockerbot version: " \o Version \o "\n") >>

BaseImageSection(cfg) ==
    << Line("base", "FROM " \o cfg.BaseImage \o "\n"), Line("base", "\n") >>

DependenciesSection(cfg) ==
    IF Len(cfg.Dependencies) > 0
    THEN << Line("deps", "RUN apt-get update && apt-get install -y \\\n") >>
         \o [i \in 1..Len(cfg.Dependencies) |->
                Line("deps", "    " \o cfg.Dependencies[i] \o " \\ \n")]
         \o << Line("deps", "    && apt-get clean && rm -rf /var/lib/apt/lists/*\n"),
               Line("deps", "\n") >>
    ELSE <<>>

PreRunSection(cfg) ==
    IF Len(cfg.PreRunCommands) > 0
    THEN [i \in 1..Len(cfg.PreRunCommands) |->
                Line("prerun", "RUN " \o cfg.PreRunCommands[i] \o "\n")]
         \o << Line("prerun", "\n") >>
    ELSE <<>>

UserSection(cfg) ==
    IF cfg.User # ""
    THEN << Line("user", "USER " \o cfg.User \o "\n"), Line("user", "\n") >>
    ELSE <<>>

\* the fallback COPY forgotten: nothing is written for an empty CopyFiles
CopySection_NoFallback(cfg) ==
    IF Len(cfg.CopyFiles) > 0
    THEN [i \in 1..Len(cfg.CopyFiles) |->
                Line("copy", "COPY " \o cfg.CopyFiles[i].Origin \o " "
                                \o cfg.CopyFiles[i].Destination \o "\n")]
         \o << Line("copy", "\n") >>
    ELSE <<>>

\* Origin and Destination exchanged in the COPY line
CopySection_Swapped(cfg) ==
    IF Len(cfg.CopyFiles) > 0
    THEN [i \in 1..Len(cfg.CopyFiles) |->
                Line("copy", "COPY " \o cfg.CopyFiles[i].Destination \o " "
                                \o cfg.CopyFiles[i].Origin \o "\n")]
         \o << Line("copy", "\n") >>
    ELSE << Line("copy", "COPY . .\n"), Line("copy", "\n") >>

CopySection(cfg) ==
    IF Len(cfg.CopyFiles) > 0
    THEN [i \in 1..Len(cfg.CopyFiles) |->
                Line("copy", "COPY " \o cfg.CopyFiles[i].Origin \o " "
                                \o cfg.CopyFiles[i].Destination \o "\n")]
         \o << Line("copy", "\n") >>
    ELSE << Line("copy", "COPY . .\n"), Line("copy", "\n") >>

RECURSIVE OrderedCmdsSection(_)
\* the loop over OrderedDockerCmds: the first command that does not format
\* ends it with that error
OrderedCmdsSection(cmds) ==
    IF cmds = <<>> THEN Result(<<>>, Nil)
    ELSE LET f == formatDockerCmd(Head(cmds))
         IN IF f.err # Nil THEN Result(<<>>, f.err)
            ELSE LET rest == OrderedCmdsSection(Tail(cmds))
                 IN IF rest.err # Nil THEN rest
                    ELSE Result(<<Line("ordered", f.line)>> \o rest.out, Nil)

BuildSection(cfg) ==
    IF cfg.BuildCommand # ""
    THEN << Line("build", "RUN " \o cfg.BuildCommand \o "\n"), Line("build", "\n") >>
    ELSE <<>>

\* the AppPort > 0 test left out
ExposeSection_AnyPort(cfg) ==
    IF cfg.ExposePort
    THEN << Line("port", "EXPOSE " \o Itoa(cfg.AppPort) \o "\n"), Line("port", "\n") >>
    ELSE <<>>

ExposeSection(cfg) ==
    IF cfg.ExposePort /\ cfg.AppPort > 0
    THEN << Line("port", "EXPOSE " \o Itoa(cfg.AppPort) \o "\n"), Line("port", "\n") >>
    ELSE <<>>

WorkspaceSection(cfg) ==
    IF cfg.Workspace # ""
    THEN << Line("workspace", "WORKDIR " \o cfg.Workspace \o "\n"),
            Line("workspace", "\n") >>
    ELSE <<>>

\* builder/builder.go writes the line whatever Workspace is
BuilderWorkspaceSection(cfg) ==
    << Line("workspace", "WORKDIR " \o cfg.Workspace \o "\n"),
       Line("workspace", "\n") >>

EntrypointSection(cfg) ==
    IF cfg.Entrypoint # ""
    THEN << Line("entrypoint", "ENTRYPOINT [\"" \o cfg.Entrypoint \o "\"]\n") >>
    ELSE <<>>

\* the build command written before the ordered commands, where
\* builder/builder.go has it relative to the copy lines
GenerateDockerfileContent_BuildFirst(cfg) ==
    IF BaseImageEmpty(cfg) THEN Result(<<>>, "base image cannot be empty")
    ELSE LET ordered == OrderedCmdsSection(cfg.OrderedDockerCmds)
         IN IF ordered.err # Nil THEN Result(<<>>, ordered.err)
            ELSE Result(HeaderSection
                        \o BaseImageSection(cfg)
                        \o DependenciesSection(cfg)
                        \o PreRunSection(cfg)
                        \o UserSection(cfg)
                        \o CopySection(cfg)
                        \o BuildSection(cfg)
                        \o ordered.out
                        \o ExposeSection(cfg)
                        \o WorkspaceSection(cfg)
                        \o EntrypointSection(cfg), Nil)

\* src/main.go:140-229
GenerateDockerfileContent(cfg) ==
    IF BaseImageEmpty(cfg) THEN Result(<<>>, "base image cannot be empty")
    ELSE LET ordered == OrderedCmdsSection(cfg.OrderedDockerCmds)
         IN IF ordered.err # Nil THEN Result(<<>>, ordered.err)
            ELSE Result(HeaderSection
                        \o BaseImageSection(cfg)
                        \o DependenciesSection(cfg)
                        \o PreRunSection(cfg)
                        \o UserSection(cfg)
                        \o CopySection(cfg)
                        \o ordered.out
                        \o BuildSection(cfg)
                        \o ExposeSection(cfg)
                        \o WorkspaceSection(cfg)
                        \o EntrypointSection(cfg), Nil)

\* src/builder/builder.go:48-117
BuilderGenerateDockerfileContent(cfg) ==
    IF BaseImageEmpty(cfg) THEN Result(<<>>, "base image cannot be empty")
    ELSE Result(BaseImageSection(cfg)
                \o DependenciesSection(cfg)
                \o PreRunSection(cfg)
                \o UserSection(cfg)
                \o CopySection(cfg)
                \o BuildSection(cfg)
                \o ExposeSection(cfg)
                \o BuilderWorkspaceSection(cfg)
                \o EntrypointSection(cfg), Nil)

----------------------------------------------------------------------------
(* State machine *)

\* a call of op that returns nothing (the mutators), and the construction
NoReturn(op) == [op |-> op, out |-> <<>>, err |-> Nil]

\* a DockerfileConfig as a composite literal builds it
InitConfigs ==
    {[BaseImage |-> b, AppPort |-> p, Dependencies |-> l.Dependencies,
      CopyFiles |-> l.CopyFiles, BuildCommand |-> bc,
      PreRunCommands |-> l.PreRunCommands, RunCommand |-> rc, Entrypoint |-> e,
      Workspace |-> w, ExposePort |-> x, User |-> u, OrderedDockerCmds |-> <<>>] :
        b \in BaseImages, p \in AppPorts, l \in ListPresets, bc \in BuildCommands,
        rc \in RunCommands, e \in Entrypoints, w \in Workspaces, x \in BOOLEAN,
        u \in Users}

\* the configuration main() builds, src/main.go:17-29
ExampleConfig ==
    [BaseImage |-> "ubuntu:20.04", AppPort |-> 8080,
     Dependencies |-> <<"git", "curl">>,
     CopyFiles |-> <<[Origin |-> "main.go", Destination |-> "/app/main.go"]>>,
     BuildCommand |-> "go build -o app .",
     PreRunCommands |-> <<"chmod +x ./app">>, RunCommand |-> "./app",
     Entrypoint |-> "/bin/sh -c", Workspace |-> "/app", ExposePort |-> TRUE,
     User |-> "nonroot", OrderedDockerCmds |-> <<>>]

Init ==
    /\ config \in InitConfigs
    /\ calls = 0
    /\ ret = NoReturn("new")

InitCmds ==
    /\ config = ExampleConfig
    /\ calls = 0
    /\ ret = NoReturn("new")

AddPreRunCommand(command) ==
    /\ calls < MaxCalls
    /\ config' = [config EXCEPT !.PreRunCommands = Append(@, command)]
    /\ calls' = calls + 1
    /\ ret' = NoReturn("AddPreRunCommand")

AddCopyFile(files) ==
    /\ calls < MaxCalls
    /\ config' = [config EXCEPT !.CopyFiles = Append(@, files)]
    /\ calls' = calls + 1
    /\ ret' = NoReturn("AddCopyFile")

\* the dependency put in front instead of appended
AddDependency_Prepend(dependency) ==
    /\ calls < MaxCalls
    /\ config' = [config EXCEPT !.Dependencies = <<dependency>> \o @]
    /\ calls' = calls + 1
    /\ ret' = NoReturn("AddDependency")

AddDependency(dependency) ==
    /\ calls < MaxCalls
    /\ config' = [config EXCEPT !.Dependencies = Append(@, dependency)]
    /\ calls' = calls + 1
    /\ ret' = NoReturn("AddDependency")

AddOrderedDockerCmd(cmd) ==
    /\ calls < MaxCalls
    /\ config' = [config EXCEPT !.OrderedDockerCmds = Append(@, cmd)]
    /\ calls' = calls + 1
    /\ ret' = NoReturn("AddOrderedDockerCmd")

\* a call of GenerateDockerfileContent of src/main.go
Generate ==
    /\ LET r == GenerateDockerfileContent(config)
       IN ret' = [op |-> "main", out |-> r.out, err |-> r.err]
    /\ UNCHANGED <<config, calls>>

\* a call of GenerateDockerfileContent of src/builder/builder.go
BuilderGenerate ==
    /\ LET r == BuilderGenerateDockerfileContent(config)
       IN ret' = [op |-> "builder", out |-> r.out, err |-> r.err]
    /\ UNCHANGED <<config, calls>>

Next ==
    \/ \E command \in PreRunInputs : AddPreRunCommand(command)
    \/ \E files \in CopyInputs : AddCopyFile(files)
    \/ \E dependency \in DepNames : AddDependency(dependency)
    \/ \E cmd \in SectionCmds : AddOrderedDockerCmd(cmd)
    \/ Generate
    \/ BuilderGenerate

Spec == Init /\ [][Next]_vars

NextCmds ==
    \/ \E cmd \in AllCmds : AddOrderedDockerCmd(cmd)
    \/ Generate

SpecCmds == InitCmds /\ [][NextCmds]_vars

----------------------------------------------------------------------------
(* Reading a result *)

\* a generate call has returned for the current configuration
Generated == ret.op \in {"main", "builder"}

Succeeded == Generated /\ ret.err = Nil

\* the strings written by the code block sec, blank lines left out
SectionLines(out, sec) ==
    LET sel == SelectSeq(out, LAMBDA l : l.sec = sec /\ l.s # "\n")
    IN [i \in 1..Len(sel) |-> sel[i].s]

\* the instruction lines: neither header comment nor blank
Substantive(out) ==
    LET sel == SelectSeq(out, LAMBDA l : l.sec # "header" /\ l.s # "\n")
    IN [i \in 1..Len(sel) |-> sel[i].s]

\* the place of each section in the order the claims list
SectionRank(sec) ==
    CASE sec = "header" -> 0
      [] sec = "base" -> 1
      [] sec = "deps" -> 2
      [] sec = "prerun" -> 3
      [] sec = "user" -> 4
      [] sec = "copy" -> 5
      [] sec = "ordered" -> 6
      [] sec = "build" -> 7
      [] sec = "port" -> 8
      [] sec = "workspace" -> 9
      [] sec = "entrypoint" -> 10

Sections == {"base", "deps", "prerun", "user", "copy", "ordered", "build",
             "port", "workspace", "entrypoint"}

Populated(out, sec) == \E i \in DOMAIN out : out[i].sec = sec

----------------------------------------------------------------------------
(* Claims *)

\* C1: with an empty BaseImage, whatever the other fields, generate returns
\* the error "base image cannot be empty" and the empty string.
C1_EmptyBaseImage ==
    (Generated /\ config.BaseImage = "")
        => (ret.err = "base image cannot be empty" /\ Text(ret.out) = "")

\* C1 witness: generate has returned on a configuration with an empty
\* BaseImage whose other fields are set.
C1_Witness ==
    /\ ret.op = "main"
    /\ config.BaseImage = ""
    /\ config.User # "" /\ config.Workspace # "" /\ config.ExposePort
    /\ Len(config.Dependencies) > 0
    /\ Len(config.OrderedDockerCmds) > 0

\* C2: with a non-empty BaseImage and a command whose kind is outside the
\* enumeration anywhere in OrderedDockerCmds, generate returns the empty
\* string and an unknown-kind error that names such a kind.
C2_UnknownKindAborts ==
    (ret.op = "main" /\ config.BaseImage # ""
        /\ \E i \in DOMAIN config.OrderedDockerCmds :
                config.OrderedDockerCmds[i].Type \notin DockerCmdTypes)
        => /\ Text(ret.out) = ""
           /\ \E i \in DOMAIN config.OrderedDockerCmds :
                /\ config.OrderedDockerCmds[i].Type \notin DockerCmdTypes
                /\ ret.err = "unknown Docker command type: "
                                \o config.OrderedDockerCmds[i].Type

\* C3: when generate succeeds, no written line of a section comes before a
\* line of a section that is earlier in the fixed order.
C3_SectionOrder ==
    Succeeded =>
        \A i, j \in DOMAIN ret.out :
            i < j => SectionRank(ret.out[i].sec) <= SectionRank(ret.out[j].sec)

\* C3 witness: a successful generate whose output has every section.
C3_Witness ==
    /\ ret.op = "main" /\ ret.err = Nil
    /\ \A sec \in Sections : Populated(ret.out, sec)

\* C4: with a non-empty BaseImage and N commands all of kinds in the
\* enumeration, generate succeeds and the generic section is the N rendered
\* lines in the order the commands were appended.
C4_RoundTrip ==
    (ret.op = "main" /\ config.BaseImage # ""
        /\ \A i \in DOMAIN config.OrderedDockerCmds :
                config.OrderedDockerCmds[i].Type \in DockerCmdTypes)
        => /\ ret.err = Nil
           /\ SectionLines(ret.out, "ordered")
                = [i \in 1..Len(config.OrderedDockerCmds) |->
                        formatDockerCmd(config.OrderedDockerCmds[i]).line]

\* a configuration with only BaseImage set (AppPort and RunCommand are never
\* written when ExposePort is false)
Minimal(cfg) ==
    /\ cfg.BaseImage # ""
    /\ cfg.Dependencies = <<>> /\ cfg.CopyFiles = <<>>
    /\ cfg.PreRunCommands = <<>> /\ cfg.OrderedDockerCmds = <<>>
    /\ cfg.BuildCommand = "" /\ cfg.User = "" /\ cfg.Workspace = ""
    /\ cfg.Entrypoint = "" /\ ~cfg.ExposePort

\* C5 as stated: with only BaseImage set, the base-image line is the only
\* instruction line of the output.
C5_OnlyBaseImageLine ==
    (Generated /\ Minimal(config))
        => Substantive(ret.out) = << "FROM ubuntu:20.04\n" >>

\* C5 amended: with only BaseImage set, the instruction lines are the
\* base-image line and the fallback copy line, and in builder/builder.go
\* also the WORKDIR line it always writes.
C5_BaseImageAndFallbackCopy ==
    (Generated /\ Minimal(config))
        => /\ ret.err = Nil
           /\ Substantive(ret.out) =
                IF ret.op = "main"
                THEN << "FROM ubuntu:20.04\n", "COPY . .\n" >>
                ELSE << "FROM ubuntu:20.04\n", "COPY . .\n", "WORKDIR \n" >>

\* C5 witness: generate has returned on a configuration with only BaseImage.
C5_Witness == ret.op = "main" /\ Minimal(config)

\* C6: with a non-empty BaseImage, a successful generate writes the WORKDIR
\* line of the Workspace field if and only if Workspace is not empty.
C6_WorkspaceConditional ==
    (Succeeded /\ config.BaseImage # "")
        => (SectionLines(ret.out, "workspace") # <<>> <=> config.Workspace # "")

\* the COPY line of one CopyInstruction
CopyLine(file) == "COPY " \o file.Origin \o " " \o file.Destination \o "\n"

\* the file-staging lines the claim describes
ExpectedCopyLines(cfg) ==
    IF Len(cfg.CopyFiles) > 0
    THEN [i \in 1..Len(cfg.CopyFiles) |-> CopyLine(cfg.CopyFiles[i])]
    ELSE << "COPY . .\n" >>

\* C7 as stated: with a non-empty BaseImage, the output has one COPY line
\* per CopyFiles pair in list order, or the single fallback line.
C7_CopySection ==
    (Generated /\ config.BaseImage # "")
        => SectionLines(ret.out, "copy") = ExpectedCopyLines(config)

\* C7 amended: the same, for the configurations on which generate succeeds.
C7_CopySectionOnSuccess ==
    (Succeeded /\ config.BaseImage # "")
        => SectionLines(ret.out, "copy") = ExpectedCopyLines(config)

\* C7 witness: a successful generate on two distinct CopyFiles pairs.
C7_Witness ==
    /\ ret.op = "main" /\ ret.err = Nil
    /\ Len(config.CopyFiles) = 2
    /\ config.CopyFiles[1] # config.CopyFiles[2]
    /\ SectionLines(ret.out, "copy")
            = << "COPY main.go /app/main.go\n", "COPY config.file config.file\n" >>

\* the port line the claim describes
ExpectedPortLines(cfg) ==
    IF cfg.ExposePort /\ cfg.AppPort > 0
    THEN << CASE cfg.AppPort = 8080 -> "EXPOSE 8080\n" >>
    ELSE <<>>

\* C8 as stated: with a non-empty BaseImage, the port section has the line
\* EXPOSE <AppPort> if and only if ExposePort is set and AppPort > 0.
C8_ExposeIff ==
    (Generated /\ config.BaseImage # "")
        => SectionLines(ret.out, "port") = ExpectedPortLines(config)

\* C8 amended: the same, for the configurations on which generate succeeds.
C8_ExposeIffOnSuccess ==
    (Succeeded /\ config.BaseImage # "")
        => SectionLines(ret.out, "port") = ExpectedPortLines(config)

\* C8 witness: a successful generate with ExposePort set and AppPort 8080.
C8_Witness ==
    /\ ret.op = "main" /\ ret.err = Nil
    /\ config.ExposePort /\ config.AppPort = 8080
    /\ SectionLines(ret.out, "port") = << "EXPOSE 8080\n" >>

\* the step appended exactly one element to the sequence field and left
\* every earlier element of it and every other field as they were
AppendedOne(field) ==
    /\ Len(config'[field]) = Len(config[field]) + 1
    /\ \A i \in 1..Len(config[field]) : config'[field][i] = config[field][i]
    /\ \A other \in DOMAIN config \ {field} : config'[other] = config[other]

\* C9: every mutator call appends one element at the end of its own
\* sequence, keeps the earlier elements at their indexes and changes no
\* other field.
C9_MutatorsAppendOnly ==
    [][ /\ ret'.op = "AddDependency" => AppendedOne("Dependencies")
        /\ ret'.op = "AddCopyFile" => AppendedOne("CopyFiles")
        /\ ret'.op = "AddPreRunCommand" => AppendedOne("PreRunCommands")
        /\ ret'.op = "AddOrderedDockerCmd" => AppendedOne("OrderedDockerCmds")
      ]_vars

\* C9 witness: AddDependency has been called on a configuration that
\* already had dependencies, after another mutator call.
C9_Witness ==
    /\ ret.op = "AddDependency"
    /\ calls = 2
    /\ Len(config.Dependencies) = 3
    /\ config.Dependencies[3] # config.Dependencies[1]

\* the sections the claim says end with one blank line
BlankLineSections == Sections \ {"entrypoint"}

\* the last non-blank line the section wrote
LastLineOf(out, sec) ==
    CHOOSE k \in DOMAIN out :
        /\ out[k].sec = sec /\ out[k].s # "\n"
        /\ \A m \in DOMAIN out : (out[m].sec = sec /\ out[m].s # "\n") => m <= k

\* C10: when generate succeeds, every populated section but the entrypoint
\* is followed by exactly one blank line, and the entrypoint line by none.
C10_BlankLineAfterSection ==
    Succeeded =>
        /\ \A sec \in BlankLineSections :
                Populated(ret.out, sec) =>
                    LET k == LastLineOf(ret.out, sec)
                    IN /\ k + 1 <= Len(ret.out)
                       /\ ret.out[k + 1].s = "\n"
                       /\ k + 2 <= Len(ret.out) => ret.out[k + 2].s # "\n"
        /\ Populated(ret.out, "entrypoint") =>
                LastLineOf(ret.out, "entrypoint") = Len(ret.out)

====
